---------------------------- MODULE Spec2Model ----------------------------
(***************************************************************************)
(* Model of gmusicapi's Webclient.change_playlist                          *)
(* (src/Contents/Libraries/Shared/gmusicapi/webclient.py) running against  *)
(* a Google Music server that holds playlists.                             *)
(*                                                                         *)
(* One step of the model is one remote call of the client (a _make_call)   *)
(* together with the local code that follows it up to the next remote      *)
(* call.  Every remote call either succeeds, with its effect on the        *)
(* server, or raises CallFailure and leaves the server as it was.          *)
(*                                                                         *)
(* webclient.py uses the names copy and tools (copy.deepcopy,              *)
(* tools.find_playlist_changes, tools.get_id_pairs) that the repository    *)
(* does not define; they are modelled as the standard deep copy and as     *)
(* the Diff Engine of the specification.  The server's protocol classes    *)
(* (gmusicapi.protocol.webclient) are not in the repository either and     *)
(* are modelled from the specification's section 6.                        *)
(***************************************************************************)
EXTENDS Integers, Sequences, FiniteSets, TLC

\* ------------------------------------------------------------------ bounds
MaxServer == 2      \* longest playlist the server holds before the call
MaxDesired == 2     \* longest desired playlist the caller passes
MaxChunks == 3      \* library chunks of which the requests and responses are recorded
MaxTokens == 2      \* distinct continuation tokens the server hands out
MaxRequests == 2    \* MusicMainMenu requests served one after the other

Songs == {"A", "B"}

\* t.get("playlistEntryId") of a track that has no entry id (Python's None)
NoEid == 0

\* the playlist id the caller passes to change_playlist
OrigId == 1

OrigName == <<"mix">>

BackupSuffix == <<"_gmusicapi_backup">>

\* ------------------------------------------------------------- helpers
Range(s) == {s[i] : i \in DOMAIN s}

Reverse(s) == [i \in 1..Len(s) |-> s[Len(s) + 1 - i]]

Min(S) == CHOOSE x \in S : \A y \in S : x <= y

SeqsUpTo(S, n) == UNION {[1..k -> S] : k \in 0..n}

\* a multiset (collections.Counter) as a function from its keys to counts
BagOfSeq(s) == [x \in Range(s) |-> Cardinality({i \in DOMAIN s : s[i] = x})]

BagSize(b) ==
  LET RECURSIVE Sum(_)
      Sum(K) == IF K = {} THEN 0
                ELSE LET k == CHOOSE k \in K : TRUE IN b[k] + Sum(K \ {k})
  IN Sum(DOMAIN b)

Repeat(x, n) == [i \in 1..n |-> x]

\* Counter.elements(): every key repeated count times, equal keys together,
\* the keys in the (arbitrary) order of the dictionary
Elements(b) ==
  LET K == DOMAIN b
      n == Cardinality(K)
      Orders == {f \in [1..n -> K] : \A i, j \in 1..n : f[i] = f[j] => i = j}
      RECURSIVE Cat(_, _)
      Cat(f, i) == IF i > n THEN <<>> ELSE Repeat(f[i], b[f[i]]) \o Cat(f, i + 1)
  IN {Cat(f, 1) : f \in Orders}

Track(sid, eid) == [id |-> sid, playlistEntryId |-> eid]

SongIds(tracks) == [i \in 1..Len(tracks) |-> tracks[i].id]

\* tools.get_id_pairs: the (sid, eid) pairs of a list of tracks, eid None when absent
get_id_pairs(track_list) ==
  [i \in 1..Len(track_list) |-> <<track_list[i].id, track_list[i].playlistEntryId>>]


\* ---------------------------------------------------------- Diff Engine
\* One phase of the pairing of the Diff Engine: the elements of the desired list
\* at the indexes todo, taken in list order, are each paired off with the first
\* server entry not yet paired that carries the same (sid, eid) pair (exact) or
\* the same song id (not exact).  Returns the server and desired indexes paired.
RECURSIVE PairOff(_, _, _, _, _, _)
PairOff(server, desired, todo, usedS, usedD, exact) ==
  IF todo = {} THEN [s |-> usedS, d |-> usedD]
  ELSE LET i == Min(todo)
           cands == {j \in (1..Len(server)) \ usedS :
                       IF exact
                       THEN get_id_pairs(server)[j] = get_id_pairs(desired)[i]
                       ELSE server[j].id = desired[i].id}
       IN IF cands = {}
          THEN PairOff(server, desired, todo \ {i}, usedS, usedD, exact)
          ELSE PairOff(server, desired, todo \ {i},
                       usedS \cup {Min(cands)}, usedD \cup {i}, exact)

\* the sequence s restricted to the indexes in keep, in order
RECURSIVE SubSeqAt(_, _)
SubSeqAt(s, keep) ==
  IF s = <<>> THEN <<>>
  ELSE SubSeqAt(SubSeq(s, 1, Len(s) - 1), keep)
         \o (IF Len(s) \in keep THEN <<s[Len(s)]>> ELSE <<>>)

\* tools.find_playlist_changes(server_tracks, desired_playlist): the change set.
\* Common (sid, eid) pairs are paired off first, then the leftovers by song id;
\* to_del is the Counter of the server pairs left over, to_add the Counter of
\* the desired songs left over (entry id a placeholder), to_keep the set of the
\* server pairs that were paired.
find_playlist_changes(server, desired) ==
  LET p1 == PairOff(server, desired, 1..Len(desired), {}, {}, TRUE)
      p2 == PairOff(server, desired, (1..Len(desired)) \ p1.d, p1.s, p1.d, FALSE)
      sp == get_id_pairs(server)
  IN [to_del  |-> BagOfSeq(SubSeqAt(sp, (1..Len(server)) \ p2.s)),
      to_add  |-> BagOfSeq([i \in 1..(Len(desired) - Cardinality(p2.d)) |->
                     <<SubSeqAt(desired, (1..Len(desired)) \ p2.d)[i].id, NoEid>>]),
      to_keep |-> {sp[j] : j \in p2.s}]

\* ------------------------------------------------ change_playlist, local code
\* mutant: only the first entry of to_del is deleted
to_del_eids_first(to_del) ==
  {IF Len(e) = 0 THEN <<>> ELSE <<e[1][2]>> : e \in Elements(to_del)}

\* to_del_eids = [pair[1] for pair in to_del.elements()]
to_del_eids(to_del) == {[i \in 1..Len(e) |-> e[i][2]] : e \in Elements(to_del)}

\* to_add_sids = [pair[0] for pair in to_add.elements()]
to_add_sids(to_add) == {[i \in 1..Len(e) |-> e[i][1]] : e \in Elements(to_add)}

\* new_sid_to_eids: maps each song id of new_pairs to the list of its new entry
\* ids, in the order of new_pairs
new_sid_to_eids(new_pairs) ==
  [sid \in {new_pairs[i][1] : i \in DOMAIN new_pairs} |->
     LET RECURSIVE Eids(_)
         Eids(k) == IF k > Len(new_pairs) THEN <<>>
                    ELSE (IF new_pairs[k][1] = sid THEN <<new_pairs[k][2]>> ELSE <<>>)
                           \o Eids(k + 1)
     IN Eids(1)]

\* the last entry id of a song is handed out and its entry dropped from the map
\* once empty
PopEid(map, sid) ==
  IF Len(map[sid]) = 1
  THEN [s \in DOMAIN map \ {sid} |-> map[s]]
  ELSE [map EXCEPT ![sid] = SubSeq(map[sid], 1, Len(map[sid]) - 1)]

\* the loop that gives the desired tracks the entry ids the server assigned
RECURSIVE FoldBack(_, _, _, _)
FoldBack(desired, i, map, keep) ==
  IF i > Len(desired) THEN [desired |-> desired, to_keep |-> keep]
  ELSE LET d_t == desired[i]
           sid == d_t.id
           pair == <<sid, d_t.playlistEntryId>>
       IN IF sid \notin DOMAIN map
          THEN FoldBack(desired, i + 1, map, keep)
          ELSE IF pair \in keep
          THEN FoldBack(desired, i + 1, map, keep \ {pair})
          ELSE FoldBack([desired EXCEPT ![i].playlistEntryId = map[sid][Len(map[sid])]],
                        i + 1, PopEid(map, sid), keep)

\* mutants: the order sent as desired, and only the song ids reversed
order_args_forward(desired) ==
  [sids |-> SongIds(desired),
   eids |-> [i \in 1..Len(desired) |-> desired[i].playlistEntryId]]

order_args_sids_only(desired) ==
  [sids |-> Reverse(SongIds(desired)),
   eids |-> [i \in 1..Len(desired) |-> desired[i].playlistEntryId]]

\* sids, eids = zip(*tools.get_id_pairs(desired_playlist[::-1]))
order_args(desired) ==
  LET pairs == get_id_pairs(Reverse(desired))
  IN [sids |-> [i \in 1..Len(pairs) |-> pairs[i][1]],
      eids |-> [i \in 1..Len(pairs) |-> pairs[i][2]]]


\* mutant: the backup is left behind after a successful change
AfterOrderNoCleanup(sf) == "done"

\* the steps that follow the diff, each skipped when its argument is empty
AfterOrder(sf) == IF sf THEN "delete_backup" ELSE "done"

\* mutant: the order set without the check for an empty list
AfterAddAlwaysOrder(desired, sf) == "change_playlist_order"

AfterAdd(desired, sf) ==
  IF desired # <<>> THEN "change_playlist_order" ELSE AfterOrder(sf)

\* mutant: the add issued without the check for an empty list
AfterRemoveAlwaysAdd(add, desired, sf) == "add_songs_to_playlist"

AfterRemove(add, desired, sf) ==
  IF BagSize(add) > 0 THEN "add_songs_to_playlist" ELSE AfterAdd(desired, sf)

AfterDiff(del, add, desired, sf) ==
  IF BagSize(del) > 0 THEN "remove_get_playlist_songs"
  ELSE AfterRemove(add, desired, sf)

\* mutant: the handler logs the failure and goes on to the return
ExceptSwallowed(sf) == "done"

\* mutants: the handler without the revert, and without the check of safe
ExceptAlwaysRaise(sf) == "raise"

ExceptAlwaysRevert(sf) == "revert_delete_playlist"

\* except CallFailure: raise when not safe, else try to revert to the backup
ExceptCallFailure(sf) == IF sf THEN "revert_delete_playlist" ELSE "raise"

\* ---------------------------------------------------------------- state
VARIABLES
  playlists,          \* server: playlist id -> [name, tracks]
  nextPid,            \* server: the next playlist id it hands out
  nextEid,            \* server: the next playlist entry id it hands out
  pc,                 \* the position of the change_playlist call
  safe,               \* argument safe
  playlist_id,        \* argument playlist_id, reassigned on a revert
  desired_playlist,   \* the deep copy of the argument, updated in place
  caller_desired,     \* the list the caller holds
  pre_tracks,         \* history: the tracks of the playlist before the call
  server_tracks,      \* get_playlist_songs(playlist_id) at the start
  playlist_name,      \* name of the playlist (safe only)
  orig_tracks,        \* copy_playlist: the tracks to copy
  new_id,             \* copy_playlist: the id of the copy
  backup_id,          \* id of the backup (safe only)
  to_del, to_add, to_keep,   \* the change set
  playlist_tracks,    \* _remove_entries_from_playlist: the tracks fetched
  new_pairs,          \* the (sid, eid) pairs add_songs_to_playlist returned
  raised,             \* the exception that left change_playlist, or "none"
  other,              \* a second change_playlist call on the same playlist
  lib,                \* a get_all_songs call and the responses it was given
  menu,               \* the plugin: preferences, Dict and a MusicMainMenu request
  calls               \* the remote calls issued so far, in order

vars == <<playlists, nextPid, nextEid, pc, safe, playlist_id, desired_playlist,
          caller_desired, pre_tracks, server_tracks, playlist_name, orig_tracks, new_id,
          backup_id, to_del, to_add, to_keep, playlist_tracks, new_pairs, raised,
          other, lib, menu, calls>>

server == <<playlists, nextPid, nextEid>>

locals == <<safe, playlist_id, desired_playlist, caller_desired, pre_tracks, server_tracks,
            playlist_name, orig_tracks, new_id, backup_id, to_del, to_add,
            to_keep, playlist_tracks, new_pairs>>

\* a local name not bound yet
Unbound == 0

\* lib_chunk = {'continuationToken': None}, and a response without the key
NoToken == 0

\* the playlists a server can hold before the call: entry ids unique
ServerLists ==
  {[i \in 1..Len(s) |-> Track(s[i], i)] : s \in SeqsUpTo(Songs, MaxServer)}

\* the desired lists a caller can pass: tracks as returned by get_playlist_songs
\* at some time (current or stale entry ids) or without an entry id
DesiredLists ==
  SeqsUpTo({Track(sid, eid) : sid \in Songs, eid \in {NoEid} \cup 1..MaxServer},
           MaxDesired)

\* no second call
OtherIdle ==
  [pc |-> "idle", began |-> "idle", caller |-> <<>>, desired |-> <<>>,
   server_tracks |-> <<>>, to_del |-> <<>>, to_add |-> <<>>, to_keep |-> {},
   playlist_tracks |-> <<>>, raised |-> "none"]

\* the state at the entry of change_playlist
InitCall ==
  /\ pre_tracks \in ServerLists
  /\ playlists = [p \in {OrigId} |-> [name |-> OrigName, tracks |-> pre_tracks]]
  /\ nextPid = OrigId + 1
  /\ nextEid = MaxServer + 1
  /\ pc = "get_playlist_songs"
  /\ safe \in BOOLEAN
  /\ playlist_id = OrigId
  /\ caller_desired \in DesiredLists
  /\ desired_playlist = <<>>
  /\ server_tracks = <<>>
  /\ playlist_name = <<>>
  /\ orig_tracks = <<>>
  /\ new_id = Unbound
  /\ backup_id = Unbound
  /\ to_del = <<>>
  /\ to_add = <<>>
  /\ to_keep = {}
  /\ playlist_tracks = <<>>
  /\ new_pairs = <<>>
  /\ raised = "none"
  /\ calls = <<>>

\* no get_all_songs call
LibIdle ==
  [pc |-> "idle", incremental |-> FALSE, token |-> NoToken, requests |-> <<>>,
   responses |-> <<>>, truncated |-> FALSE, to_return |-> <<>>, raised |-> "none"]

\* the plugin without a request
MenuIdle ==
  [pc |-> "idle", email |-> "", password |-> "", conn |-> "missing", authed |-> FALSE,
   logins |-> 0, items |-> <<>>, served |-> 0]

Init == InitCall /\ other = OtherIdle /\ lib = LibIdle /\ menu = MenuIdle

\* ------------------------------------------------------------- the server
\* GetPlaylistSongs: the tracks of a playlist, [] when the id does not exist
SrvPlaylistSongs(pls, pid) == IF pid \in DOMAIN pls THEN pls[pid].tracks ELSE <<>>

\* GetPlaylistSongs 'all': the playlists as a list of (title, playlistId)
RECURSIVE SrvAllPlaylists(_, _)
SrvAllPlaylists(pls, ids) ==
  IF ids = {} THEN <<>>
  ELSE <<[title |-> pls[Min(ids)].name, playlistId |-> Min(ids)]>>
         \o SrvAllPlaylists(pls, ids \ {Min(ids)})

\* AddPlaylist: a new empty playlist under a fresh id
SrvAddPlaylist(pls, pid, name) ==
  [p \in DOMAIN pls \cup {pid} |->
     IF p = pid THEN [name |-> name, tracks |-> <<>>] ELSE pls[p]]

\* DeletePlaylist
SrvDeletePlaylist(pls, pid) == [p \in DOMAIN pls \ {pid} |-> pls[p]]

\* ChangePlaylistName
SrvChangePlaylistName(pls, pid, name) == [pls EXCEPT ![pid].name = name]

\* AddToPlaylist: the songs appended in order, each under a fresh entry id
SrvNewEntries(sids, eid0) == [i \in 1..Len(sids) |-> Track(sids[i], eid0 + i - 1)]

\* the response of AddToPlaylist as add_songs_to_playlist returns it: one
\* (sid, eid) pair per song added, or a response that lacks the last pair
AddResponses(sids, eid0) ==
  LET full == get_id_pairs(SrvNewEntries(sids, eid0))
  IN {full, SubSeq(full, 1, Len(full) - 1)}

SrvAddToPlaylist(pls, pid, sids, eid0) ==
  [pls EXCEPT ![pid].tracks = @ \o SrvNewEntries(sids, eid0)]

\* DeleteSongs of a playlist: the entries with the given entry ids removed
SrvDeleteEntries(pls, pid, eids) ==
  [pls EXCEPT ![pid].tracks =
     SubSeqAt(@, {i \in 1..Len(@) : @[i].playlistEntryId \notin Range(eids)})]

\* ChangePlaylistOrder is accepted when the (sid, eid) pairs it is given are
\* exactly the entries of the playlist, each once
SrvOrderValid(pls, pid, sids, eids) ==
  /\ pid \in DOMAIN pls
  /\ Len(sids) = Len(eids)
  /\ Len(sids) = Len(pls[pid].tracks)
  /\ {<<sids[i], eids[i]>> : i \in 1..Len(sids)} = Range(get_id_pairs(pls[pid].tracks))

\* ChangePlaylistOrder: the server applies the order back to front
SrvChangePlaylistOrder(pls, pid, sids, eids) ==
  [pls EXCEPT ![pid].tracks = Reverse([i \in 1..Len(sids) |-> Track(sids[i], eids[i])])]


\* -------------------------------------------------- Webclient, below the call
\* a remote call as the transport sees it: the line of change_playlist's code
\* that issued it, the protocol call, its arguments, and whether it succeeded
Call(at, call, pid, sids, eids, name, ok) ==
  [at |-> at, call |-> call, pid |-> pid, sids |-> sids, eids |-> eids,
   name |-> name, ok |-> ok]

\* _playlist_list_to_dict: title -> the list of the ids under that title
_playlist_list_to_dict(pl_list) ==
  [name \in {pl_list[i].title : i \in DOMAIN pl_list} |->
     LET at == {i \in DOMAIN pl_list : pl_list[i].title = name}
     IN [k \in 1..Cardinality(at) |-> SubSeqAt(pl_list, at)[k].playlistId]]

\* the names under which names_to_ids lists the playlist id
NamesOf(names_to_ids, pid) ==
  {n \in DOMAIN names_to_ids : pid \in Range(names_to_ids[n])}

\* mutant: every entry of the playlist is taken for removal
e_s_id_pairs_all(tracks, entry_ids_to_remove) == get_id_pairs(tracks)

\* e_s_id_pairs of _remove_entries_from_playlist
e_s_id_pairs(tracks, entry_ids_to_remove) ==
  SubSeqAt(get_id_pairs(tracks),
           {i \in 1..Len(tracks) : tracks[i].playlistEntryId \in Range(entry_ids_to_remove)})

\* an exception leaves change_playlist
Raise(exc) == pc' = "done" /\ raised' = exc

\* a CallFailure raised inside the try block
Except ==
  IF ExceptCallFailure(safe) = "raise"
  THEN Raise("CallFailure")
  ELSE pc' = ExceptCallFailure(safe) /\ UNCHANGED raised

\* mutant: the snapshot made inside the try block
PropagateInsideTry == Except

\* a CallFailure raised before the try block leaves change_playlist
Propagate == Raise("CallFailure")

\* mutant: the failure of the revert is logged and swallowed
RevertFailureSwallowed == pc' = "done" /\ UNCHANGED raised

\* except CallFailure of the revert: logger.warning(...); raise
RevertFailure == Raise("CallFailure")

\* mutant: the working list is the caller's list itself
CallerSeesAliased(caller, working) == working

\* desired_playlist = copy.deepcopy(desired_playlist): the entry ids folded into
\* the working list are written to copies of the caller's dictionaries
CallerSees(caller, working) == caller

\* mutant: the arguments of the Diff Engine swapped
changes_swapped(tracks, desired) == find_playlist_changes(desired, tracks)

\* mutant: tracks matched by their (sid, eid) pair only, never by song id
changes_exact_only(tracks, desired) ==
  LET p1 == PairOff(tracks, desired, 1..Len(desired), {}, {}, TRUE)
      sp == get_id_pairs(tracks)
  IN [to_del  |-> BagOfSeq(SubSeqAt(sp, (1..Len(tracks)) \ p1.s)),
      to_add  |-> BagOfSeq([i \in 1..(Len(desired) - Cardinality(p1.d)) |->
                     <<SubSeqAt(desired, (1..Len(desired)) \ p1.d)[i].id, NoEid>>]),
      to_keep |-> {sp[j] : j \in p1.s}]

\* the call of the Diff Engine
changes(tracks, desired) == find_playlist_changes(tracks, desired)

\* mutant: the copy takes every song once
copy_song_ids_unique(tracks) ==
  SubSeqAt(SongIds(tracks),
           {i \in 1..Len(tracks) : \A j \in 1..(i - 1) : tracks[j].id # tracks[i].id})

\* mutant: the copy takes the tracks in the order of the reorder call
copy_song_ids_reversed(tracks) == Reverse(SongIds(tracks))

\* copy_playlist: [t["id"] for t in orig_tracks]
copy_song_ids(tracks) == SongIds(tracks)

\* --------------------------------------------------------- change_playlist
\* desired_playlist = [copy.deepcopy(t) ...]; server_tracks = get_playlist_songs(..)
GetPlaylistSongs ==
  /\ pc = "get_playlist_songs"
  /\ \E ok \in BOOLEAN :
       /\ calls' = Append(calls, Call(pc, "GetPlaylistSongs", playlist_id, <<>>, <<>>, <<>>, ok))
       /\ desired_playlist' = caller_desired
       /\ IF ok
          THEN /\ server_tracks' = SrvPlaylistSongs(playlists, playlist_id)
               /\ pc' = IF safe THEN "get_all_playlist_ids" ELSE "find_playlist_changes"
               /\ UNCHANGED raised
          ELSE /\ Propagate
               /\ UNCHANGED server_tracks
  /\ UNCHANGED <<other, lib, menu, server, safe, playlist_id, caller_desired, pre_tracks, new_pairs, playlist_name,
                 orig_tracks, new_id, backup_id, to_del, to_add, to_keep,
                 playlist_tracks>>

\* names_to_ids = get_all_playlist_ids()['user']; playlist_name = (...).next()
GetAllPlaylistIds ==
  /\ pc = "get_all_playlist_ids"
  /\ \E ok \in BOOLEAN :
       /\ calls' = Append(calls, Call(pc, "GetPlaylistSongs_all", Unbound, <<>>, <<>>, <<>>, ok))
       /\ IF ok
          THEN LET names_to_ids ==
                     _playlist_list_to_dict(SrvAllPlaylists(playlists, DOMAIN playlists))
                   names == NamesOf(names_to_ids, playlist_id)
               IN IF names = {}
                  THEN Raise("StopIteration") /\ UNCHANGED playlist_name
                  ELSE /\ playlist_name' \in names
                       /\ pc' = "copy_get_playlist_songs"
                       /\ UNCHANGED raised
          ELSE Propagate /\ UNCHANGED playlist_name
  /\ UNCHANGED <<other, lib, menu, server, safe, playlist_id, desired_playlist, caller_desired, pre_tracks, new_pairs,
                 server_tracks, orig_tracks, new_id, backup_id, to_del, to_add,
                 to_keep, playlist_tracks>>

\* copy_playlist: orig_tracks = self.get_playlist_songs(playlist_id)
CopyGetPlaylistSongs ==
  /\ pc = "copy_get_playlist_songs"
  /\ \E ok \in BOOLEAN :
       /\ calls' = Append(calls, Call(pc, "GetPlaylistSongs", playlist_id, <<>>, <<>>, <<>>, ok))
       /\ IF ok
          THEN /\ orig_tracks' = SrvPlaylistSongs(playlists, playlist_id)
               /\ pc' = "create_playlist"
               /\ UNCHANGED raised
          ELSE Propagate /\ UNCHANGED orig_tracks
  /\ UNCHANGED <<other, lib, menu, server, safe, playlist_id, desired_playlist, caller_desired, pre_tracks, new_pairs,
                 server_tracks, playlist_name, new_id, backup_id, to_del, to_add,
                 to_keep, playlist_tracks>>

\* copy_playlist: new_id = self.create_playlist(copy_name); with no track to
\* copy add_songs_to_playlist returns at once and copy_playlist returns new_id
CreatePlaylist ==
  /\ pc = "create_playlist"
  /\ \E ok \in BOOLEAN :
       /\ calls' = Append(calls, Call(pc, "AddPlaylist", Unbound, <<>>, <<>>,
                                      playlist_name \o BackupSuffix, ok))
       /\ IF ok
          THEN /\ playlists' = SrvAddPlaylist(playlists, nextPid, playlist_name \o BackupSuffix)
               /\ nextPid' = nextPid + 1
               /\ new_id' = nextPid
               /\ IF orig_tracks # <<>>
                  THEN pc' = "copy_add_songs" /\ UNCHANGED backup_id
                  ELSE pc' = "find_playlist_changes" /\ backup_id' = nextPid
               /\ UNCHANGED raised
          ELSE /\ Propagate
               /\ UNCHANGED <<playlists, nextPid, new_id, backup_id>>
  /\ UNCHANGED <<other, lib, menu, nextEid, safe, playlist_id, desired_playlist, caller_desired, pre_tracks, new_pairs,
                 server_tracks, playlist_name, orig_tracks, to_del, to_add,
                 to_keep, playlist_tracks>>

\* copy_playlist: self.add_songs_to_playlist(new_id, [t["id"] for t in orig_tracks])
CopyAddSongs ==
  /\ pc = "copy_add_songs"
  /\ \E ok \in BOOLEAN :
       /\ calls' = Append(calls, Call(pc, "AddToPlaylist", new_id, copy_song_ids(orig_tracks),
                                      <<>>, <<>>, ok))
       /\ IF ok
          THEN /\ playlists' = SrvAddToPlaylist(playlists, new_id, copy_song_ids(orig_tracks), nextEid)
               /\ nextEid' = nextEid + Len(orig_tracks)
               /\ backup_id' = new_id
               /\ pc' = "find_playlist_changes"
               /\ UNCHANGED raised
          ELSE /\ Propagate
               /\ UNCHANGED <<playlists, nextEid, backup_id>>
  /\ UNCHANGED <<other, lib, menu, nextPid, safe, playlist_id, desired_playlist, caller_desired, pre_tracks, new_pairs,
                 server_tracks, playlist_name, orig_tracks, new_id, to_del, to_add,
                 to_keep, playlist_tracks>>

\* to_del, to_add, to_keep = tools.find_playlist_changes(server_tracks, desired_playlist)
FindPlaylistChanges ==
  /\ pc = "find_playlist_changes"
  /\ LET ch == changes(server_tracks, desired_playlist)
     IN /\ to_del' = ch.to_del
        /\ to_add' = ch.to_add
        /\ to_keep' = ch.to_keep
        /\ pc' = AfterDiff(ch.to_del, ch.to_add, desired_playlist, safe)
  /\ UNCHANGED <<other, lib, menu, server, safe, playlist_id, desired_playlist, caller_desired, pre_tracks, new_pairs,
                 server_tracks, playlist_name, orig_tracks, new_id, backup_id,
                 playlist_tracks, raised, calls>>


\* _remove_entries_from_playlist: playlist_tracks = self.get_playlist_songs(..)
\* and the unzip of the pairs found, which fails on an empty list
RemoveGetPlaylistSongs ==
  /\ pc = "remove_get_playlist_songs"
  /\ \E ok \in BOOLEAN :
       /\ calls' = Append(calls, Call(pc, "GetPlaylistSongs", playlist_id, <<>>, <<>>, <<>>, ok))
       /\ IF ok
          THEN /\ playlist_tracks' = SrvPlaylistSongs(playlists, playlist_id)
               /\ \E eids \in to_del_eids(to_del) :
                    IF e_s_id_pairs(SrvPlaylistSongs(playlists, playlist_id), eids) = <<>>
                    THEN Raise("ValueError")
                    ELSE pc' = "remove_entries" /\ UNCHANGED raised
          ELSE Except /\ UNCHANGED playlist_tracks
  /\ UNCHANGED <<other, lib, menu, server, safe, playlist_id, desired_playlist, caller_desired, pre_tracks, new_pairs,
                 server_tracks, playlist_name, orig_tracks, new_id, backup_id,
                 to_del, to_add, to_keep>>

\* _remove_entries_from_playlist: self._make_call(webclient.DeleteSongs, sids, playlist_id, eids)
RemoveEntries ==
  /\ pc = "remove_entries"
  /\ \E ok \in BOOLEAN, del_eids \in to_del_eids(to_del) :
       LET pairs == e_s_id_pairs(playlist_tracks, del_eids)
           sids == [i \in 1..Len(pairs) |-> pairs[i][1]]
           eids == [i \in 1..Len(pairs) |-> pairs[i][2]]
       IN /\ calls' = Append(calls, Call(pc, "DeleteSongs", playlist_id, sids, eids, <<>>, ok))
          /\ IF ok
             THEN /\ playlists' = SrvDeleteEntries(playlists, playlist_id, eids)
                  /\ pc' = AfterRemove(to_add, desired_playlist, safe)
                  /\ UNCHANGED raised
             ELSE Except /\ UNCHANGED playlists
  /\ UNCHANGED <<other, lib, menu, nextPid, nextEid, locals>>

\* new_pairs = self.add_songs_to_playlist(playlist_id, to_add_sids) and the
\* update of the desired tracks with the entry ids the server gave
AddSongsToPlaylist ==
  /\ pc = "add_songs_to_playlist"
  /\ \E ok \in BOOLEAN, sids \in to_add_sids(to_add) :
       /\ calls' = Append(calls, Call(pc, "AddToPlaylist", playlist_id, sids, <<>>, <<>>, ok))
       /\ IF ok
          THEN \E res \in AddResponses(sids, nextEid) :
               LET folded == FoldBack(desired_playlist, 1, new_sid_to_eids(res), to_keep)
               IN /\ playlists' = SrvAddToPlaylist(playlists, playlist_id, sids, nextEid)
                  /\ new_pairs' = res
                  /\ nextEid' = nextEid + Len(sids)
                  /\ desired_playlist' = folded.desired
                  /\ to_keep' = folded.to_keep
                  /\ caller_desired' = CallerSees(caller_desired, folded.desired)
                  /\ pc' = AfterAdd(folded.desired, safe)
                  /\ UNCHANGED raised
          ELSE Except /\ UNCHANGED <<playlists, nextEid, desired_playlist, to_keep,
                                     caller_desired, new_pairs>>
  /\ UNCHANGED <<other, lib, menu, nextPid, safe, playlist_id, pre_tracks, server_tracks,
                 playlist_name, orig_tracks, new_id, backup_id, to_del, to_add,
                 playlist_tracks>>

\* self._make_call(webclient.ChangePlaylistOrder, playlist_id, sids, eids)
ChangePlaylistOrder ==
  /\ pc = "change_playlist_order"
  /\ LET args == order_args(desired_playlist)
     IN \E ok \in IF SrvOrderValid(playlists, playlist_id, args.sids, args.eids)
                  THEN BOOLEAN ELSE {FALSE} :
          /\ calls' = Append(calls, Call(pc, "ChangePlaylistOrder", playlist_id,
                                         args.sids, args.eids, <<>>, ok))
          /\ IF ok
             THEN /\ playlists' = SrvChangePlaylistOrder(playlists, playlist_id,
                                                         args.sids, args.eids)
                  /\ pc' = AfterOrder(safe)
                  /\ UNCHANGED raised
             ELSE Except /\ UNCHANGED playlists
  /\ UNCHANGED <<other, lib, menu, nextPid, nextEid, locals>>

\* clean up the backup: self.delete_playlist(backup_id), inside the try block
DeleteBackup ==
  /\ pc = "delete_backup"
  /\ \E ok \in BOOLEAN :
       /\ calls' = Append(calls, Call(pc, "DeletePlaylist", backup_id, <<>>, <<>>, <<>>, ok))
       /\ IF ok
          THEN /\ playlists' = SrvDeletePlaylist(playlists, backup_id)
               /\ pc' = "done"
               /\ UNCHANGED raised
          ELSE Except /\ UNCHANGED playlists
  /\ UNCHANGED <<other, lib, menu, nextPid, nextEid, locals>>

\* revert: self.delete_playlist(playlist_id)
RevertDeletePlaylist ==
  /\ pc = "revert_delete_playlist"
  /\ \E ok \in BOOLEAN :
       /\ calls' = Append(calls, Call(pc, "DeletePlaylist", playlist_id, <<>>, <<>>, <<>>, ok))
       /\ IF ok
          THEN /\ playlists' = SrvDeletePlaylist(playlists, playlist_id)
               /\ pc' = "revert_change_playlist_name"
               /\ UNCHANGED raised
          ELSE RevertFailure /\ UNCHANGED playlists
  /\ UNCHANGED <<other, lib, menu, nextPid, nextEid, locals>>

\* revert: self.change_playlist_name(backup_id, playlist_name); playlist_id = backup_id
RevertChangePlaylistName ==
  /\ pc = "revert_change_playlist_name"
  /\ \E ok \in BOOLEAN :
       /\ calls' = Append(calls, Call(pc, "ChangePlaylistName", backup_id, <<>>, <<>>,
                                      playlist_name, ok))
       /\ IF ok
          THEN /\ playlists' = SrvChangePlaylistName(playlists, backup_id, playlist_name)
               /\ playlist_id' = backup_id
               /\ pc' = "done"
               /\ UNCHANGED raised
          ELSE RevertFailure /\ UNCHANGED <<playlists, playlist_id>>
  /\ UNCHANGED <<other, lib, menu, nextPid, nextEid, safe, desired_playlist, caller_desired, pre_tracks, new_pairs,
                 server_tracks, playlist_name, orig_tracks, new_id, backup_id,
                 to_del, to_add, to_keep, playlist_tracks>>

Next ==
  \/ GetPlaylistSongs
  \/ GetAllPlaylistIds
  \/ CopyGetPlaylistSongs
  \/ CreatePlaylist
  \/ CopyAddSongs
  \/ FindPlaylistChanges
  \/ RemoveGetPlaylistSongs
  \/ RemoveEntries
  \/ AddSongsToPlaylist
  \/ ChangePlaylistOrder
  \/ DeleteBackup
  \/ RevertDeletePlaylist
  \/ RevertChangePlaylistName

Spec == Init /\ [][Next]_vars

\* ------------------------------------- a second call on the same playlist
\* the lists the second caller can pass: tracks without an entry id
OtherLists == {<<>>} \cup {<<Track(sid, NoEid)>> : sid \in Songs}

\* what the second call leaves alone: the locals and the call log of the first,
\* and the other operations
first == <<pc, safe, playlist_id, desired_playlist, caller_desired, pre_tracks,
           server_tracks, playlist_name, orig_tracks, new_id, backup_id, to_del,
           to_add, to_keep, playlist_tracks, new_pairs, raised, calls, lib, menu>>

\* an exception leaves the second call (safe is false: the handler re-raises)
OtherRaise(exc) == [other EXCEPT !.pc = "done", !.raised = exc]

\* history: where the first call stood when the second began
Began(p) ==
  IF p = "done" THEN "after" ELSE IF p = "get_playlist_songs" THEN "before" ELSE "during"

\* desired_playlist = [copy.deepcopy(t) ...]; server_tracks = get_playlist_songs(..)
OtherGetPlaylistSongs ==
  /\ other.pc = "get_playlist_songs"
  /\ \E ok \in BOOLEAN :
       other' = IF ok
                THEN [other EXCEPT !.pc = "find_playlist_changes", !.began = Began(pc),
                                   !.desired = other.caller,
                                   !.server_tracks = SrvPlaylistSongs(playlists, OrigId)]
                ELSE [OtherRaise("CallFailure") EXCEPT !.began = Began(pc)]
  /\ UNCHANGED <<server, first>>

\* to_del, to_add, to_keep = tools.find_playlist_changes(server_tracks, desired_playlist)
OtherFindPlaylistChanges ==
  /\ other.pc = "find_playlist_changes"
  /\ LET ch == changes(other.server_tracks, other.desired)
     IN other' = [other EXCEPT !.to_del = ch.to_del, !.to_add = ch.to_add,
                               !.to_keep = ch.to_keep,
                               !.pc = AfterDiff(ch.to_del, ch.to_add, other.desired, FALSE)]
  /\ UNCHANGED <<server, first>>

\* _remove_entries_from_playlist: playlist_tracks = self.get_playlist_songs(..)
OtherRemoveGetPlaylistSongs ==
  /\ other.pc = "remove_get_playlist_songs"
  /\ \E ok \in BOOLEAN :
       IF ok
       THEN \E eids \in to_del_eids(other.to_del) :
              other' = IF e_s_id_pairs(SrvPlaylistSongs(playlists, OrigId), eids) = <<>>
                       THEN [OtherRaise("ValueError") EXCEPT
                               !.playlist_tracks = SrvPlaylistSongs(playlists, OrigId)]
                       ELSE [other EXCEPT !.pc = "remove_entries",
                               !.playlist_tracks = SrvPlaylistSongs(playlists, OrigId)]
       ELSE other' = OtherRaise("CallFailure")
  /\ UNCHANGED <<server, first>>

\* _remove_entries_from_playlist: self._make_call(webclient.DeleteSongs, sids, playlist_id, eids)
OtherRemoveEntries ==
  /\ other.pc = "remove_entries"
  /\ \E ok \in BOOLEAN, del_eids \in to_del_eids(other.to_del) :
       LET pairs == e_s_id_pairs(other.playlist_tracks, del_eids)
           eids == [i \in 1..Len(pairs) |-> pairs[i][2]]
       IN IF ok
          THEN /\ playlists' = SrvDeleteEntries(playlists, OrigId, eids)
               /\ other' = [other EXCEPT
                              !.pc = AfterRemove(other.to_add, other.desired, FALSE)]
          ELSE other' = OtherRaise("CallFailure") /\ UNCHANGED playlists
  /\ UNCHANGED <<nextPid, nextEid, first>>

\* new_pairs = self.add_songs_to_playlist(playlist_id, to_add_sids) and the
\* update of the desired tracks with the entry ids the server gave
OtherAddSongsToPlaylist ==
  /\ other.pc = "add_songs_to_playlist"
  /\ \E ok \in BOOLEAN, sids \in to_add_sids(other.to_add) :
       IF ok
       THEN \E res \in AddResponses(sids, nextEid) :
            LET folded == FoldBack(other.desired, 1, new_sid_to_eids(res), other.to_keep)
            IN /\ playlists' = SrvAddToPlaylist(playlists, OrigId, sids, nextEid)
               /\ nextEid' = nextEid + Len(sids)
               /\ other' = [other EXCEPT !.desired = folded.desired,
                                         !.to_keep = folded.to_keep,
                                         !.pc = AfterAdd(folded.desired, FALSE)]
       ELSE other' = OtherRaise("CallFailure") /\ UNCHANGED <<playlists, nextEid>>
  /\ UNCHANGED <<nextPid, first>>

\* self._make_call(webclient.ChangePlaylistOrder, playlist_id, sids, eids)
OtherChangePlaylistOrder ==
  /\ other.pc = "change_playlist_order"
  /\ LET args == order_args(other.desired)
     IN \E ok \in IF SrvOrderValid(playlists, OrigId, args.sids, args.eids)
                  THEN BOOLEAN ELSE {FALSE} :
          IF ok
          THEN /\ playlists' = SrvChangePlaylistOrder(playlists, OrigId, args.sids, args.eids)
               /\ other' = [other EXCEPT !.pc = AfterOrder(FALSE)]
          ELSE other' = OtherRaise("CallFailure") /\ UNCHANGED playlists
  /\ UNCHANGED <<nextPid, nextEid, first>>

\* two calls with safe false on the same playlist, their remote calls interleaved
InitConc ==
  /\ InitCall
  /\ safe = FALSE
  /\ \E d \in OtherLists :
       other = [OtherIdle EXCEPT !.pc = "get_playlist_songs", !.caller = d]
  /\ lib = LibIdle
  /\ menu = MenuIdle

NextConc ==
  \/ GetPlaylistSongs
  \/ FindPlaylistChanges
  \/ RemoveGetPlaylistSongs
  \/ RemoveEntries
  \/ AddSongsToPlaylist
  \/ ChangePlaylistOrder
  \/ OtherGetPlaylistSongs
  \/ OtherFindPlaylistChanges
  \/ OtherRemoveGetPlaylistSongs
  \/ OtherRemoveEntries
  \/ OtherAddSongsToPlaylist
  \/ OtherChangePlaylistOrder

SpecConc == InitConc /\ [][NextConc]_vars

\* ---------------------------------------------------------- get_all_songs
\* what get_all_songs and the plugin leave alone
change_playlist_vars ==
  <<server, pc, safe, playlist_id, desired_playlist, caller_desired, pre_tracks,
    server_tracks, playlist_name, orig_tracks, new_id, backup_id, to_del, to_add,
    to_keep, playlist_tracks, new_pairs, raised, calls, other>>

\* no change_playlist call is made
NoCall == InitCall /\ ~safe /\ pre_tracks = <<>> /\ caller_desired = <<>> /\ other = OtherIdle

\* the songs a library chunk can hold, and the tokens a response can carry
Chunks == {<<>>, <<"A">>, <<"B">>, <<"A", "B">>}

Tokens == 1..MaxTokens

\* a response of GetLibrarySongs; token = NoToken: no 'continuationToken' key
Response(songs, token) == [playlist |-> songs, token |-> token]

\* [song for chunk in to_return for song in chunk]
RECURSIVE Flatten(_)
Flatten(chunks) ==
  IF chunks = <<>> THEN <<>> ELSE Head(chunks) \o Flatten(Tail(chunks))

\* mutant: the loop left after the first chunk
get_next_chunk_never(token) == FALSE

\* get_next_chunk = 'continuationToken' in lib_chunk
get_next_chunk(token) == token # NoToken

\* lib_chunk = self._make_call(webclient.GetLibrarySongs, lib_chunk['continuationToken'])
\* returned; yield lib_chunk['playlist']. Beyond MaxChunks requests the loop goes
\* on but the requests and responses are no longer recorded.
Receive(resp) ==
  IF Len(lib.requests) < MaxChunks
  THEN [lib EXCEPT !.pc = "test", !.token = resp.token,
                   !.requests = Append(@, lib.token),
                   !.responses = Append(@, resp)]
  ELSE [lib EXCEPT !.pc = "test", !.token = resp.token, !.truncated = TRUE]

\* the server answers with a chunk and a continuation token
ChunkWithToken ==
  /\ lib.pc = "request"
  /\ \E songs \in Chunks, t \in Tokens : lib' = Receive(Response(songs, t))
  /\ UNCHANGED <<change_playlist_vars, menu>>

\* the server answers with a chunk that carries no continuation token
ChunkWithoutToken ==
  /\ lib.pc = "request"
  /\ \E songs \in Chunks : lib' = Receive(Response(songs, NoToken))
  /\ UNCHANGED <<change_playlist_vars, menu>>

\* the call raises CallFailure, which leaves get_all_songs (or the generator)
ChunkCallFailure ==
  /\ lib.pc = "request"
  /\ lib' = [lib EXCEPT !.pc = "done", !.raised = "CallFailure",
                        !.requests = IF Len(@) < MaxChunks THEN Append(@, lib.token) ELSE @,
                        !.truncated = Len(lib.requests) >= MaxChunks \/ @]
  /\ UNCHANGED <<change_playlist_vars, menu>>

\* while get_next_chunk: the next request, or the end of the generator and, when
\* not incremental, the return of the flattened list
TestNextChunk ==
  /\ lib.pc = "test"
  /\ lib' = IF get_next_chunk(lib.token)
            THEN [lib EXCEPT !.pc = "request"]
            ELSE [lib EXCEPT !.pc = "done",
                    !.to_return =
                       LET chunks == [k \in DOMAIN lib.responses |-> lib.responses[k].playlist]
                       IN IF lib.incremental THEN chunks ELSE Flatten(chunks)]
  /\ UNCHANGED <<change_playlist_vars, menu>>

InitSongs ==
  /\ NoCall
  /\ menu = MenuIdle
  /\ \E inc \in BOOLEAN : lib = [LibIdle EXCEPT !.pc = "request", !.incremental = inc]

NextSongs ==
  \/ ChunkWithToken
  \/ ChunkWithoutToken
  \/ ChunkCallFailure
  \/ TestNextChunk

SpecSongs == InitSongs /\ [][NextSongs]_vars

\* the loop keeps running, and the server eventually answers without a token
FairSpecSongs ==
  SpecSongs /\ WF_vars(TestNextChunk) /\ SF_vars(ChunkWithoutToken)

\* ------------------------------------------------- the plugin: MusicMainMenu
\* the values a preference can have: never set, set to the empty string, set
PrefValues == {"None", "", "set"}

\* the truth value Python gives a preference
Truthy(v) == v \notin {"None", ""}

\* Dict['GMusicConnection']: no such key, {}, {'authed': False}, {'authed': True}
ConnValues == {"missing", "empty", "authed_false", "authed_true"}

\* the items of the menu
PrefsOnly == <<"Prefs Title">>

BadPassword == <<"Prefs Title: Bad Password">>

Library == <<"Playlists", "Artists", "Albums", "Songs", "Search", "Prefs Title Change">>

\* mutant: the stored flag is not looked at
StoredAuthedNever(conn) == FALSE

\* 'authed' in Dict['GMusicConnection'] and Dict['GMusicConnection']['authed']
StoredAuthed(conn) == conn = "authed_true"

\* MusicMainMenu up to the decision of lines 39-48
MainMenu ==
  /\ menu.pc = "request"
  /\ LET conn == IF menu.conn = "missing" THEN "empty" ELSE menu.conn
     IN menu' =
          IF ~Truthy(menu.email) \/ ~Truthy(menu.password)
          THEN [menu EXCEPT !.conn = conn, !.items = PrefsOnly, !.pc = "done"]
          ELSE IF StoredAuthed(conn)
          THEN [menu EXCEPT !.conn = conn, !.authed = TRUE, !.pc = "build"]
          ELSE [menu EXCEPT !.conn = conn, !.pc = "login"]
  /\ UNCHANGED <<change_playlist_vars, lib>>

\* GMusic_Authenticate: authed = api.login(Prefs['email'], Prefs['password'])
GMusic_Authenticate ==
  /\ menu.pc = "login"
  /\ \E res \in BOOLEAN :
       menu' = [menu EXCEPT !.logins = @ + 1, !.authed = res, !.pc = "build"]
  /\ UNCHANGED <<change_playlist_vars, lib>>

\* lines 50-60: the menu for the outcome
BuildMenu ==
  /\ menu.pc = "build"
  /\ menu' = [menu EXCEPT !.items = IF ~menu.authed THEN BadPassword ELSE Library,
                          !.pc = "done"]
  /\ UNCHANGED <<change_playlist_vars, lib>>

\* the next request: Dict is kept, the user may have changed the preferences
NextRequest ==
  /\ menu.pc = "done"
  /\ menu.served + 1 < MaxRequests
  /\ \E e, p \in PrefValues :
       menu' = [menu EXCEPT !.pc = "request", !.email = e, !.password = p,
                            !.authed = FALSE, !.logins = 0, !.items = <<>>,
                            !.served = @ + 1]
  /\ UNCHANGED <<change_playlist_vars, lib>>

InitMenu ==
  /\ NoCall
  /\ lib = LibIdle
  /\ \E e, p \in PrefValues, c \in ConnValues :
       menu = [MenuIdle EXCEPT !.pc = "request", !.email = e, !.password = p, !.conn = c]

NextMenu ==
  \/ MainMenu
  \/ GMusic_Authenticate
  \/ BuildMenu
  \/ NextRequest

SpecMenu == InitMenu /\ [][NextMenu]_vars


\* ------------------------------------------------------------- the claims
Done == pc = "done"

Returned == pc = "done" /\ raised = "none"

\* the remote calls issued from the given places of the code
CallsAt(places) == {i \in DOMAIN calls : calls[i].at \in places}

FailedAt(places) == \E i \in CallsAt(places) : ~calls[i].ok

SnapshotSteps ==
  {"get_all_playlist_ids", "copy_get_playlist_songs", "create_playlist", "copy_add_songs"}

MutationSteps ==
  {"remove_get_playlist_songs", "remove_entries", "add_songs_to_playlist",
   "change_playlist_order"}

RevertSteps == {"revert_delete_playlist", "revert_change_playlist_name"}

\* the calls that change the tracks of a playlist
MutationCalls == {"DeleteSongs", "AddToPlaylist", "ChangePlaylistOrder"}

\* C1: in safe mode, when the delete, add or reorder step failed with a
\* CallFailure and no call of the revert failed, change_playlist returns the id of
\* the backup, the original playlist is gone and the backup carries its name.
C1_SafeRecovery ==
  (Done /\ safe /\ FailedAt(MutationSteps) /\ ~FailedAt(RevertSteps)) =>
     /\ raised = "none"
     /\ playlist_id = backup_id
     /\ backup_id # OrigId
     /\ OrigId \notin DOMAIN playlists
     /\ backup_id \in DOMAIN playlists
     /\ playlists[backup_id].name = OrigName

C1_Witness ==
  /\ Returned /\ safe
  /\ FailedAt({"add_songs_to_playlist"})
  /\ playlist_id = backup_id
  /\ OrigId \notin DOMAIN playlists

\* C2: in safe mode, a failure of the deletion of the backup after a successful
\* mutation leaves the operation successful: change_playlist returns the id it was
\* given, the original playlist exists and holds the desired songs, and no call of
\* the revert is issued.
C2_BackupDeleteFailureIgnored ==
  (safe /\ FailedAt({"delete_backup"})) =>
     /\ CallsAt(RevertSteps) = {}
     /\ OrigId \in DOMAIN playlists
     /\ SongIds(playlists[OrigId].tracks) = SongIds(caller_desired)
     /\ Done => (raised = "none" /\ playlist_id = OrigId)

\* C3: in safe mode, from the completion of the snapshot on, some playlist of the
\* server holds the song sequence the playlist had before the call, or the
\* original playlist holds the desired song sequence.
C3_ContentsNeverLost ==
  (safe /\ backup_id # Unbound) =>
     \/ \E p \in DOMAIN playlists : SongIds(playlists[p].tracks) = SongIds(pre_tracks)
     \/ /\ OrigId \in DOMAIN playlists
        /\ SongIds(playlists[OrigId].tracks) = SongIds(caller_desired)

C3_Witness ==
  /\ safe /\ backup_id # Unbound
  /\ pc = "revert_delete_playlist"
  /\ FailedAt({"add_songs_to_playlist"})
  /\ SongIds(playlists[OrigId].tracks) # SongIds(pre_tracks)
  /\ SongIds(playlists[OrigId].tracks) # SongIds(caller_desired)
  /\ SongIds(playlists[backup_id].tracks) = SongIds(pre_tracks)

\* C4: with safe false, no call creates, deletes or renames a playlist, and a
\* remote call that fails leaves the server as the completed steps left it and
\* ends change_playlist with the CallFailure, so that no call follows it.
C4_UnsafeFailurePropagates ==
  [][(~safe /\ calls' # calls) =>
       LET c == calls'[Len(calls')]
       IN /\ c.call \notin {"AddPlaylist", "DeletePlaylist", "ChangePlaylistName"}
          /\ DOMAIN playlists' = {OrigId}
          /\ ~c.ok => /\ playlists' = playlists
                      /\ pc' = "done"
                      /\ raised' = "CallFailure"]_vars

C4_Witness ==
  /\ ~safe /\ Done /\ raised = "CallFailure"
  /\ FailedAt({"add_songs_to_playlist"})
  /\ \E i \in CallsAt({"remove_entries"}) : calls[i].ok
  /\ Len(playlists[OrigId].tracks) < Len(pre_tracks)

\* C5: in safe mode, when a remote call of the snapshot fails, change_playlist
\* ends with the CallFailure at that call, the original playlist is as it was
\* before the call, and no call that changes its tracks and no call of the revert
\* was issued.
C5_SnapshotFailure ==
  (safe /\ FailedAt(SnapshotSteps)) =>
     /\ Done /\ raised = "CallFailure"
     /\ ~calls[Len(calls)].ok
     /\ \A i \in 1..(Len(calls) - 1) : calls[i].ok
     /\ OrigId \in DOMAIN playlists
     /\ playlists[OrigId] = [name |-> OrigName, tracks |-> pre_tracks]
     /\ \A i \in DOMAIN calls :
          ~(calls[i].call \in MutationCalls /\ calls[i].pid = OrigId)
     /\ CallsAt(MutationSteps \cup RevertSteps) = {}

C5_Witness ==
  /\ safe /\ Done /\ raised = "CallFailure"
  /\ FailedAt({"copy_add_songs"})
  /\ pre_tracks # <<>>


AllCallsOk == \A i \in DOMAIN calls : calls[i].ok

\* C6: when change_playlist returns and every remote call succeeded, the playlist
\* under the returned id holds exactly the song ids of the desired list, in the
\* desired order.
C6_DesiredReached ==
  (Returned /\ AllCallsOk) =>
     /\ playlist_id \in DOMAIN playlists
     /\ SongIds(playlists[playlist_id].tracks) = SongIds(caller_desired)

C6_Witness ==
  /\ Returned /\ AllCallsOk
  /\ SongIds(caller_desired) = <<"B", "B">>
  /\ SongIds(pre_tracks) = <<"A", "B">>
  /\ CallsAt({"remove_entries"}) # {}
  /\ CallsAt({"add_songs_to_playlist"}) # {}
  /\ SongIds(playlists[playlist_id].tracks) = <<"B", "B">>

\* C7: every ChangePlaylistOrder call carries as many song ids and entry ids as
\* the desired list has tracks, the song ids being those of the desired list in
\* reverse order and the entry id at each position being the one the desired
\* track at the mirrored position carries after the fold.
C7_OrderReversed ==
  \A i \in DOMAIN calls :
     calls[i].call = "ChangePlaylistOrder" =>
        LET n == Len(caller_desired)
        IN /\ Len(calls[i].sids) = n
           /\ Len(calls[i].eids) = n
           /\ Len(desired_playlist) = n
           /\ \A k \in 1..n :
                /\ calls[i].sids[k] = caller_desired[n + 1 - k].id
                /\ calls[i].sids[k] = desired_playlist[n + 1 - k].id
                /\ calls[i].eids[k] = desired_playlist[n + 1 - k].playlistEntryId

C7_Witness ==
  \E i \in DOMAIN calls :
     /\ calls[i].call = "ChangePlaylistOrder"
     /\ calls[i].ok
     /\ SongIds(caller_desired) = <<"A", "B">>
     /\ calls[i].sids = <<"B", "A">>
     /\ calls[i].eids[1] # calls[i].eids[2]

\* the diff has run: the change set is bound
PreDiffSteps ==
  {"get_playlist_songs", "find_playlist_changes"} \cup SnapshotSteps

DiffDone ==
  /\ pc \notin PreDiffSteps
  /\ ~FailedAt(PreDiffSteps)
  /\ raised # "StopIteration"

CountCalls(call) == Cardinality({i \in DOMAIN calls : calls[i].call = call})

\* C8: with an empty desired list, the diff puts every server entry in to_del and
\* nothing in to_add, no add call is issued on the playlist and no
\* ChangePlaylistOrder call is issued at all.
C8_EmptyDesired ==
  caller_desired = <<>> =>
     /\ DiffDone => /\ to_del = BagOfSeq(get_id_pairs(server_tracks))
                    /\ server_tracks = pre_tracks
                    /\ to_add = <<>>
     /\ CountCalls("ChangePlaylistOrder") = 0
     /\ \A i \in DOMAIN calls : ~(calls[i].call = "AddToPlaylist" /\ calls[i].pid = OrigId)

C8_Witness ==
  /\ caller_desired = <<>>
  /\ Len(pre_tracks) = 2
  /\ Returned /\ playlist_id = OrigId
  /\ playlists[OrigId].tracks = <<>>
  /\ \E i \in CallsAt({"remove_entries"}) : calls[i].ok /\ Len(calls[i].eids) = 2

\* C9: with a desired list equal to the server's list, the diff leaves to_del and
\* to_add empty, no DeleteSongs call and no AddToPlaylist call on the playlist is
\* issued, ChangePlaylistOrder is issued at most once and, when change_playlist
\* returns the id it was given, exactly once for a non-empty list and never for
\* an empty one, and the playlist keeps its entries in their order.
C9_Idempotent ==
  caller_desired = pre_tracks =>
     /\ DiffDone => (to_del = <<>> /\ to_add = <<>>)
     /\ CountCalls("DeleteSongs") = 0
     /\ \A i \in DOMAIN calls : ~(calls[i].call = "AddToPlaylist" /\ calls[i].pid = OrigId)
     /\ CountCalls("ChangePlaylistOrder") <= 1
     /\ (Returned /\ playlist_id = OrigId) =>
           CountCalls("ChangePlaylistOrder") = (IF pre_tracks = <<>> THEN 0 ELSE 1)
     /\ OrigId \in DOMAIN playlists => playlists[OrigId].tracks = pre_tracks

C9_Witness ==
  /\ caller_desired = pre_tracks
  /\ SongIds(pre_tracks) = <<"A", "B">>
  /\ Returned /\ playlist_id = OrigId
  /\ CountCalls("ChangePlaylistOrder") = 1
  /\ playlists[OrigId].tracks = pre_tracks

\* multisets
BagCount(b, x) == IF x \in DOMAIN b THEN b[x] ELSE 0

BagPlus(a, b) == [x \in DOMAIN a \cup DOMAIN b |-> BagCount(a, x) + BagCount(b, x)]

SetToBag(S) == [x \in S |-> 1]

\* the song ids of a multiset of (sid, eid) pairs, as a multiset
SidBag(b) ==
  [sid \in {k[1] : k \in DOMAIN b} |->
     LET RECURSIVE Sum(_)
         Sum(K) == IF K = {} THEN 0
                   ELSE LET k == CHOOSE k \in K : TRUE IN b[k] + Sum(K \ {k})
     IN Sum({k \in DOMAIN b : k[1] = sid})]

\* C10: once the diff has run (and before the fold consumes to_keep), to_del and
\* to_keep together are the multiset of the (sid, eid) pairs of the server list,
\* and the song ids of to_add and to_keep together are the multiset of the song
\* ids of the desired list.
C10_DiffPartition ==
  (DiffDone /\ ~(\E i \in CallsAt({"add_songs_to_playlist"}) : calls[i].ok)) =>
     /\ BagPlus(to_del, SetToBag(to_keep)) = BagOfSeq(get_id_pairs(pre_tracks))
     /\ BagPlus(SidBag(to_add), SidBag(SetToBag(to_keep)))
          = BagOfSeq(SongIds(caller_desired))

C10_Witness ==
  /\ DiffDone
  /\ SongIds(pre_tracks) = <<"A", "A">>
  /\ SongIds(caller_desired) = <<"A", "B">>
  /\ BagSize(to_del) = 1 /\ BagSize(to_add) = 1 /\ Cardinality(to_keep) = 1


\* how often the song occurs in a list of tracks
SongCount(tracks, sid) == Cardinality({i \in 1..Len(tracks) : tracks[i].id = sid})

Max(a, b) == IF a >= b THEN a ELSE b

\* C11: the diff matches songs by count: a song that the server list holds s times
\* and the desired list d times is in to_del max(0, s - d) times and in to_add
\* max(0, d - s) times, so no song is both deleted and added; and the server list
\* [A, A, B] with the desired list [A, B, B], whatever entry ids its tracks carry,
\* gives one A to delete, one B to add, and one A and one B to keep (the example
\* does not depend on the state; it is evaluated where the diff step is reached
\* with empty lists).
C11_MatchByCount ==
  /\ (DiffDone /\ ~(\E i \in CallsAt({"add_songs_to_playlist"}) : calls[i].ok)) =>
        \A sid \in Songs :
           /\ BagCount(SidBag(to_del), sid)
                = Max(0, SongCount(pre_tracks, sid) - SongCount(caller_desired, sid))
           /\ BagCount(SidBag(to_add), sid)
                = Max(0, SongCount(caller_desired, sid) - SongCount(pre_tracks, sid))
           /\ ~(BagCount(SidBag(to_del), sid) > 0 /\ BagCount(SidBag(to_add), sid) > 0)
  /\ (pc = "find_playlist_changes" /\ server_tracks = <<>> /\ desired_playlist = <<>>) =>
        \A e1, e2, e3 \in {NoEid, 1, 2, 3} :
           LET ch == changes(<<Track("A", 1), Track("A", 2), Track("B", 3)>>,
                             <<Track("A", e1), Track("B", e2), Track("B", e3)>>)
           IN /\ SidBag(ch.to_del) = SetToBag({"A"})
              /\ SidBag(ch.to_add) = SetToBag({"B"})
              /\ SidBag(SetToBag(ch.to_keep)) = SetToBag({"A", "B"})

C11_Witness ==
  /\ DiffDone
  /\ SongIds(pre_tracks) = <<"A", "A">>
  /\ caller_desired = <<Track("A", NoEid)>>
  /\ to_del = SetToBag({<<"A", 2>>})
  /\ to_keep = {<<"A", 1>>}
  /\ to_add = <<>>


BackupNamed == {p \in DOMAIN playlists : playlists[p].name = OrigName \o BackupSuffix}

\* C13: in safe mode, when a mutation step has failed and one of the two revert
\* calls (delete the original, rename the backup) fails as well, change_playlist
\* raises instead of returning an id, and the backup is still on the server under
\* its derived name with the song sequence the playlist had before the call.
C13_RecoveryFailureRaises ==
  (Done /\ safe /\ FailedAt(MutationSteps) /\ FailedAt(RevertSteps)) =>
     /\ raised = "CallFailure"
     /\ backup_id \in BackupNamed
     /\ SongIds(playlists[backup_id].tracks) = SongIds(pre_tracks)

C13_Witness ==
  /\ Done /\ safe /\ raised = "CallFailure"
  /\ FailedAt({"add_songs_to_playlist"})
  /\ FailedAt({"revert_change_playlist_name"})
  /\ OrigId \notin DOMAIN playlists
  /\ backup_id \in BackupNamed
  /\ SongIds(pre_tracks) = <<"A", "B">>


\* C14 as stated: whenever a change_playlist call has ended, no playlist with the
\* derived backup name remains on the server.
C14_Original == Done => BackupNamed = {}

\* C14: whenever a change_playlist call has returned a playlist id, no playlist
\* with the derived backup name remains on the server: the backup was deleted
\* after a successful change or renamed to the original name by the revert.
C14_BackupGoneOnReturn == Returned => BackupNamed = {}

C14_Witness ==
  /\ Returned /\ safe
  /\ \E i \in CallsAt({"create_playlist"}) : calls[i].ok
  /\ FailedAt({"change_playlist_order"})
  /\ playlist_id = backup_id
  /\ BackupNamed = {}


\* C15: when copy_playlist has returned, there is a new playlist under the given
\* name whose song ids are those of the source at the time of the copy, in the
\* same order and with duplicates, its id is returned and differs from the
\* source's id, and the source is unchanged; for an empty source the new playlist
\* is empty and no add call was issued.
C15_CopyPlaylist ==
  (safe /\ pc = "find_playlist_changes") =>
     /\ backup_id \in DOMAIN playlists
     /\ backup_id = new_id
     /\ backup_id # playlist_id
     /\ playlists[backup_id].name = playlist_name \o BackupSuffix
     /\ SongIds(playlists[backup_id].tracks) = SongIds(orig_tracks)
     /\ playlists[playlist_id].tracks = orig_tracks
     /\ playlists[playlist_id].name = playlist_name
     /\ orig_tracks = <<>> =>
           /\ playlists[backup_id].tracks = <<>>
           /\ CallsAt({"copy_add_songs"}) = {}

C15_Witness ==
  /\ safe /\ pc = "find_playlist_changes"
  /\ SongIds(orig_tracks) = <<"A", "A">>
  /\ SongIds(playlists[backup_id].tracks) = <<"A", "A">>
  /\ CallsAt({"copy_add_songs"}) # {}


\* the position of a call site in the order snapshot, entry delete, track add,
\* order-setting, backup delete, recovery
StepRank(at) ==
  CASE at = "get_playlist_songs" -> 0
    [] at \in SnapshotSteps -> 1
    [] at \in {"remove_get_playlist_songs", "remove_entries"} -> 2
    [] at = "add_songs_to_playlist" -> 3
    [] at = "change_playlist_order" -> 4
    [] at = "delete_backup" -> 5
    [] at \in RevertSteps -> 6

\* C17: the remote calls of one change_playlist call are issued in the order
\* snapshot (safe only), entry delete, track add, order-setting, backup delete
\* (safe only); in safe mode no delete, add or order-setting call is issued before
\* the snapshot is complete; and the calls of the recovery are issued only when
\* safe is true and only after a failure of the delete, add or reorder step.
C17_StepOrder ==
  /\ \A i, j \in DOMAIN calls : i < j => StepRank(calls[i].at) <= StepRank(calls[j].at)
  /\ \A i \in DOMAIN calls :
        /\ calls[i].at \in SnapshotSteps \cup {"delete_backup"} => safe
        /\ (safe /\ calls[i].at \in MutationSteps) =>
              /\ backup_id # Unbound
              /\ \A j \in CallsAt(SnapshotSteps) : j < i /\ calls[j].ok
  /\ CallsAt(RevertSteps) # {} => (safe /\ FailedAt(MutationSteps))


\* the add call on the playlist succeeded and the fold-back has run
Folded == \E i \in CallsAt({"add_songs_to_playlist"}) : calls[i].ok

\* the response of the add call held one pair for every song requested
FullResponse ==
  \A i \in CallsAt({"add_songs_to_playlist"}) :
     calls[i].ok => Len(new_pairs) = Len(calls[i].sids)

\* C18: when the add call returned one (sid, eid) pair per requested song, then
\* right after the fold-back every element of the working desired list carries an
\* entry id under which the server playlist holds that song, and no two elements
\* carry the same entry id.
C18_FoldedEidsValid ==
  (pc = "change_playlist_order" /\ Folded /\ FullResponse) =>
     /\ \A k \in DOMAIN desired_playlist :
           \E e \in DOMAIN playlists[playlist_id].tracks :
              playlists[playlist_id].tracks[e] = desired_playlist[k]
     /\ \A k, l \in DOMAIN desired_playlist :
           k # l => desired_playlist[k].playlistEntryId # desired_playlist[l].playlistEntryId


\* some element of the folded desired list carries no entry id of the playlist
StaleFold ==
  \E k \in DOMAIN desired_playlist :
     \A e \in DOMAIN playlists[playlist_id].tracks :
        playlists[playlist_id].tracks[e] # desired_playlist[k]

\* C19: when the add call returned fewer pairs than songs requested and the
\* fold-back left a desired element with an absent or stale entry id, no
\* ChangePlaylistOrder call is issued with that list, and change_playlist ends as
\* a failed mutation: it raises when safe is false and goes to the revert when
\* safe is true.
C19_ShortAddNoOrder ==
  (Folded /\ ~FullResponse /\ (pc = "change_playlist_order" => StaleFold)) =>
     /\ CallsAt({"change_playlist_order"}) = {}
     /\ pc # "change_playlist_order"
     /\ (Done /\ ~safe) => raised = "CallFailure"
     /\ (Done /\ safe) => CallsAt(RevertSteps) # {}


\* to_keep as the diff returned it (the fold-back removes pairs from to_keep)
KeepAtDiff == changes(server_tracks, caller_desired).to_keep

\* the positions of the desired list that hold the pair
PositionsOf(pair) ==
  {k \in DOMAIN caller_desired :
     caller_desired[k] = Track(pair[1], pair[2])}

\* C20: the entries of to_keep are preserved: no pair of to_keep is passed to the
\* delete call, each keeps its entry id on the server and, after the fold-back,
\* in the desired list; and when the desired list holds a pair of to_keep more
\* than once, the first of these elements retains the entry id and each of the
\* others receives a distinct entry id newly assigned by the add call.
C20_KeptEntriesPreserved ==
  DiffDone =>
    \A pair \in KeepAtDiff :
       /\ \A i \in CallsAt({"remove_entries"}) :
             \A k \in DOMAIN calls[i].eids : calls[i].eids[k] # pair[2]
       /\ OrigId \in DOMAIN playlists =>
             \E e \in DOMAIN playlists[OrigId].tracks :
                playlists[OrigId].tracks[e] = Track(pair[1], pair[2])
       /\ (pc = "change_playlist_order" /\ Folded /\ FullResponse) =>
             /\ \E k \in DOMAIN desired_playlist :
                   desired_playlist[k] = Track(pair[1], pair[2])
             /\ Cardinality(PositionsOf(pair)) > 1 =>
                   \A k, l \in PositionsOf(pair) :
                      /\ k = Min(PositionsOf(pair)) =>
                            desired_playlist[k].playlistEntryId = pair[2]
                      /\ k # Min(PositionsOf(pair)) =>
                            \E n \in DOMAIN new_pairs :
                               new_pairs[n][2] = desired_playlist[k].playlistEntryId
                      /\ k # l => desired_playlist[k].playlistEntryId
                                     # desired_playlist[l].playlistEntryId


\* C16: there is no locking. Two calls on the same playlist that run one after
\* the other each leave the playlist equal to their own desired list: when the
\* first has returned and the second has not begun, the playlist holds the first
\* caller's songs, and when the second, begun after the first ended, has returned,
\* the playlist holds the second caller's songs. (Two overlapping calls can both
\* return while the playlist matches neither list: C16_Witness.)
C16_SerializedCalls ==
  /\ (Returned /\ other.pc = "get_playlist_songs") =>
        SongIds(playlists[OrigId].tracks) = SongIds(caller_desired)
  /\ (other.pc = "done" /\ other.raised = "none" /\ other.began = "after") =>
        SongIds(playlists[OrigId].tracks) = SongIds(other.caller)

\* both calls returned without an error, their remote calls were interleaved,
\* and the playlist holds neither caller's list
C16_Witness ==
  /\ Returned
  /\ other.pc = "done" /\ other.raised = "none"
  /\ other.began = "during"
  /\ \E i \in DOMAIN calls : calls[i].call \in MutationCalls
  /\ SongIds(playlists[OrigId].tracks) # SongIds(caller_desired)
  /\ SongIds(playlists[OrigId].tracks) # SongIds(other.caller)


\* the DeleteSongs and AddToPlaylist calls change_playlist issued on the playlist
DeleteCalls == CallsAt({"remove_entries"})

AddCalls == CallsAt({"add_songs_to_playlist"})

\* the (sid, eid) pairs a DeleteSongs call carries, as a bag
CallPairs(c) == BagOfSeq([k \in 1..Len(c.eids) |-> <<c.sids[k], c.eids[k]>>])

\* the call has left the step, and no earlier step of the try block failed
PastRemove ==
  /\ DiffDone
  /\ pc \notin {"remove_get_playlist_songs", "remove_entries"}
  /\ ~FailedAt({"remove_get_playlist_songs"})
  /\ raised # "ValueError"

PastAdd ==
  /\ PastRemove
  /\ pc # "add_songs_to_playlist"
  /\ ~FailedAt({"remove_entries"})

\* C21: per change_playlist call the DeleteSongs call is issued at most once,
\* is issued exactly when to_del is not empty (and the step is reached), and
\* carries exactly the (sid, eid) pairs of to_del; the AddToPlaylist call on the
\* playlist is issued at most once, exactly when to_add is not empty, and carries
\* exactly the song ids of to_add, each as often as to_add holds it.
C21_OneDeleteOneAdd ==
  /\ Cardinality(DeleteCalls) <= 1
  /\ Cardinality(AddCalls) <= 1
  /\ \A i \in DeleteCalls :
        /\ BagSize(to_del) > 0
        /\ calls[i].call = "DeleteSongs"
        /\ CallPairs(calls[i]) = to_del
  /\ \A i \in AddCalls :
        /\ BagSize(to_add) > 0
        /\ calls[i].call = "AddToPlaylist"
        /\ BagOfSeq(calls[i].sids) = SidBag(to_add)
  /\ (PastRemove /\ BagSize(to_del) > 0) => DeleteCalls # {}
  /\ (PastAdd /\ BagSize(to_add) > 0) => AddCalls # {}

C21_Witness ==
  /\ Returned
  /\ SongIds(pre_tracks) = <<"A", "B">>
  /\ SongIds(caller_desired) = <<"A", "A">>
  /\ \E i \in DeleteCalls : calls[i].ok /\ calls[i].sids = <<"B">> /\ calls[i].eids = <<2>>
  /\ \E i \in AddCalls : calls[i].ok /\ calls[i].sids = <<"A">>


\* the returned id is the input id and that playlist holds the desired songs
ReturnedChanged ==
  /\ playlist_id = OrigId
  /\ OrigId \in DOMAIN playlists
  /\ SongIds(playlists[OrigId].tracks) = SongIds(caller_desired)

\* the returned id is the backup's, the input id is gone, and the returned
\* playlist has the original name and the songs the playlist had before the call
ReturnedReverted ==
  /\ playlist_id = backup_id
  /\ playlist_id # OrigId
  /\ OrigId \notin DOMAIN playlists
  /\ playlist_id \in DOMAIN playlists
  /\ playlists[playlist_id].name = OrigName
  /\ SongIds(playlists[playlist_id].tracks) = SongIds(pre_tracks)

\* C22: whenever change_playlist returns normally, exactly one of two outcomes
\* holds: the input id is returned and its playlist holds the desired songs in the
\* desired order, or the backup's id is returned, the input id no longer exists
\* and the returned playlist has the original name and the pre-call songs; and a
\* normal return with the input id never follows a failed mutation call.
C22_ReturnOutcomes ==
  Returned =>
     /\ ReturnedChanged \/ ReturnedReverted
     /\ ~(ReturnedChanged /\ ReturnedReverted)
     /\ playlist_id = OrigId => ~FailedAt(MutationSteps)

C22_Witness ==
  /\ Returned /\ safe
  /\ ReturnedReverted
  /\ FailedAt({"remove_entries"})
  /\ SongIds(pre_tracks) = <<"A", "B">>
  /\ SongIds(caller_desired) = <<"B">>


\* get_all_songs (or its generator) has ended without an exception
LibReturned == lib.pc = "done" /\ lib.raised = "none"

\* the number of songs in the chunks fetched before the k-th
RECURSIVE SongsBefore(_)
SongsBefore(k) ==
  IF k <= 1 THEN 0 ELSE SongsBefore(k - 1) + Len(lib.responses[k - 1].playlist)

\* what C23 says of every state of a get_all_songs call
LibSafety ==
  /\ lib.pc \in {"test", "done"} => (Len(lib.requests) >= 1 /\ lib.requests[1] = NoToken)
  /\ \A k \in DOMAIN lib.requests :
        k > 1 => (lib.requests[k] = lib.responses[k - 1].token /\ lib.requests[k] # NoToken)
  /\ \A k \in DOMAIN lib.responses :
        lib.responses[k].token = NoToken =>
           (Len(lib.requests) = k /\ ~lib.truncated /\ lib.pc \in {"test", "done"})
  /\ (LibReturned /\ ~lib.truncated) =>
        /\ Len(lib.responses) = Len(lib.requests)
        /\ lib.responses[Len(lib.responses)].token = NoToken
        /\ ~lib.incremental =>
              /\ Len(lib.to_return) = SongsBefore(Len(lib.responses) + 1)
              /\ \A k \in DOMAIN lib.responses : \A i \in DOMAIN lib.responses[k].playlist :
                    lib.to_return[SongsBefore(k) + i] = lib.responses[k].playlist[i]
  /\ LibReturned => lib.token = NoToken

\* C23: get_all_songs sends the first request with no continuation token, sends
\* every later request with the token of the response before it, sends no
\* request after the first response without a token, returns (not incremental)
\* the songs of the chunks in fetch order, issues at least one request, and, when
\* the server eventually answers without a token, ends.
C23_GetAllSongs == [](LibSafety) /\ <>(lib.pc = "done")

C23_Witness ==
  /\ LibReturned /\ ~lib.incremental
  /\ lib.requests = <<NoToken, 2, 1>>
  /\ lib.to_return = <<"A", "B", "A">>
  /\ Len(lib.responses[2].playlist) = 0


\* both credentials are set
Creds == Truthy(menu.email) /\ Truthy(menu.password)

\* the library entries the menu lists
LibraryEntries == {"Playlists", "Artists", "Albums", "Songs", "Search"}

\* C24: MusicMainMenu never calls login when the email or the password
\* preference is unset, and then shows only the preferences item; it calls login
\* exactly when both are set and the stored connection state has no truthy
\* 'authed' flag; and it lists the library entries only when the session is
\* authenticated, otherwise only the bad-password preferences item.
C24_MainMenu ==
  /\ ~Creds => (menu.logins = 0 /\ menu.pc \notin {"login", "build"})
  /\ menu.logins <= 1
  /\ menu.pc = "done" =>
        /\ ~Creds => menu.items = PrefsOnly
        /\ menu.logins = 1 <=> (Creds /\ menu.conn # "authed_true")
        /\ (Range(menu.items) \cap LibraryEntries # {}) =>
              (Creds /\ menu.authed /\ LibraryEntries \subseteq Range(menu.items))
        /\ (Creds /\ menu.authed) => LibraryEntries \subseteq Range(menu.items)
        /\ (Creds /\ ~menu.authed) => menu.items = BadPassword

C24_Witness ==
  /\ menu.pc = "done" /\ menu.served = 1
  /\ Creds /\ menu.conn = "authed_false"
  /\ menu.logins = 1 /\ menu.authed
  /\ menu.items = Library

=============================================================================
